---- MODULE Spec2Model ----
(***************************************************************************)
(* job_mailer.py: a scheduled script that queries a job-search API over a  *)
(* fixed list of queries, drops the listings whose identifier is already   *)
(* in sent_jobs.json, asks an LLM to format the rest, emails the digest    *)
(* and, when the email was sent, merges the identifiers into               *)
(* sent_jobs.json.  The model follows one process that is run again and    *)
(* again; the file sent_jobs.json is the only state that survives a run.   *)
(***************************************************************************)
EXTENDS Integers, Sequences, FiniteSets, TLC

\* ------------------------------------------------------------------ bounds
\* Number of runs of the script that are followed.
MaxRuns == 2
\* Largest number of listings the job source returns over one run.
MaxFetched == 2
\* Listings per query of the job source that answers every query with a
\* pair of listings nobody has seen.
PairSize == 2
\* Listings per query of the job source that answers every query with a full
\* page: NumQueries pages are more than enrich_with_llm's sample.
PageSize == 8
\* Largest set whose every order of list(a_set) is followed; a larger set is
\* followed in one order.
MaxShuffled == 3

\* ------------------------------------------------------- program constants
\* len(queries) in fetch_all_jobs.
NumQueries == 7
\* jobs[:50] in enrich_with_llm.
SampleLimit == 50
\* The exit status of a process that has not exited.
NotExited == -1

\* --------------------------------------------------------------- listings
\* A key that a listing (a dict of the provider's JSON) does not carry.
Absent == "<absent>"

\* str(x) inside the f-string: dict.get of a missing key is None.
Str(v) == IF v = Absent THEN "None" ELSE v

\* The listings the job source can return.  J2 carries no job_id; J3's
\* job_id equals J2's fallback key.
J1 == [job_id |-> "a", title |-> "Dev", company_name |-> "Acme"]
J2 == [job_id |-> Absent, title |-> "Dev", company_name |-> "Acme"]
J3 == [job_id |-> "Dev-Acme", title |-> "QA", company_name |-> "Bolt"]
Listings == {J1, J2, J3}

\* job.get("job_id", f"{job.get('title')}-{job.get('company_name')}") in
\* fetch_all_jobs: the key the filter looks up.
JobIdUnderscore(job) ==
    IF job.job_id # Absent
    THEN job.job_id
    ELSE Str(job.title) \o "_" \o Str(job.company_name)
JobId(job) ==
    IF job.job_id # Absent
    THEN job.job_id
    ELSE Str(job.title) \o "-" \o Str(job.company_name)

Range(s) == {s[i] : i \in 1..Len(s)}

\* The sequences over S of length at most n.
SeqsUpTo(S, n) == UNION {[1..k -> S] : k \in 0..n}

\* One enumeration of a set.
RECURSIVE OneListOf(_)
OneListOf(S) ==
    IF S = {} THEN <<>>
    ELSE LET x == CHOOSE y \in S : TRUE IN <<x>> \o OneListOf(S \ {x})

\* list(a_set): the elements once each, in an order the hash decides.
ListOf(S) ==
    IF Cardinality(S) <= MaxShuffled
    THEN {s \in [1..Cardinality(S) -> S] : Range(s) = S}
    ELSE {OneListOf(S)}

\* The job sources followed.  "small": any query may fail or return any few
\* of Listings.  "pairs", "pages": query q returns the next PairSize or
\* PageSize listings of an unending list of distinct postings.
Sources == {"small", "pairs", "pages"}
BatchSize(src) == IF src = "pairs" THEN PairSize ELSE PageSize

\* The n-th posting of that list, n < 100.  Postings come in four shapes:
\* with job_id; without job_id; without job_id and title; with job_id only.
Digit == <<"0", "1", "2", "3", "4", "5", "6", "7", "8", "9">>
Name(n) == "j" \o Digit[(n \div 10) + 1] \o Digit[(n % 10) + 1]
Posting(n) ==
    CASE n % 4 = 1 -> [job_id |-> Name(n), title |-> "Dev", company_name |-> "Acme"]
      [] n % 4 = 2 -> [job_id |-> Absent, title |-> "T" \o Name(n), company_name |-> "Acme"]
      [] n % 4 = 3 -> [job_id |-> Absent, title |-> Absent, company_name |-> "C" \o Name(n)]
      [] n % 4 = 0 -> [job_id |-> Name(n), title |-> Absent, company_name |-> Absent]

\* What query q returns from a source of batches of k postings.
Batch(q, k) == [i \in 1..k |-> Posting((q - 1) * k + i)]

\* -------------------------------------------------------- sent_jobs.json
\* The file is absent, or holds text; the text is unparseable, or the JSON
\* of a number, of an object (items: its keys), of an array of strings
\* (items: its elements) or of an array that holds nested arrays.
FileKinds == {"missing", "text", "number", "object", "array", "nested"}
MissingFile == [kind |-> "missing", items |-> <<>>]
File(k, s) == [kind |-> k, items |-> s]

\* load_sent_jobs(): the set read, or the exception that leaves the function.
\*   missing file         -> set()
\*   unparseable text     -> json.JSONDecodeError, caught -> set()
\*   a number             -> set(5): TypeError, not named by the except clause
\*   an object            -> set(dict) is the set of its keys
\*   an array of strings  -> the set of its elements
\*   nested arrays        -> set([[..]]): TypeError (unhashable list)
load_sent_jobs(f) ==
    CASE f.kind = "missing" -> [raised |-> FALSE, value |-> {}]
      [] f.kind = "text"    -> [raised |-> FALSE, value |-> {}]
      [] f.kind = "number"  -> [raised |-> TRUE,  value |-> {}]
      [] f.kind = "object"  -> [raised |-> FALSE, value |-> Range(f.items)]
      [] f.kind = "array"   -> [raised |-> FALSE, value |-> Range(f.items)]
      [] f.kind = "nested"  -> [raised |-> TRUE,  value |-> {}]

\* existing.union(set(job_ids)) in save_sent_jobs.
UpdatedOverwrite(existing, job_ids) == Range(job_ids)
Updated(existing, job_ids) == existing \cup Range(job_ids)

\* The files the script may find when it is first run.
InitFiles ==
    { MissingFile,
      File("text", <<>>),
      File("number", <<>>),
      File("object", <<"a">>),
      File("nested", <<>>),
      File("array", <<>>),
      File("array", <<"a">>),
      File("array", <<"Dev-Acme", "a">>) }

\* ------------------------------------------------------------------ state
VARIABLES
    file,           \* content of sent_jobs.json
    source,         \* the job source the runs query
    pc,             \* where the run is
    runs,           \* runs started so far
    sent_job_ids,   \* fetch_all_jobs: the set loaded at the start of the run
    qi,             \* fetch_all_jobs: index of the query fetched next
    fetched,        \* every listing the job source returned in this run
    all_jobs,       \* fetch_all_jobs: the listings kept
    lastFetch,      \* how the latest fetch_jobs call ended
    enrichCalls,    \* calls of enrich_with_llm in this run
    llm,            \* how enrich_with_llm went: "none", "no_key", "call_raised", "ok"
    emailCalls,     \* calls of send_email in this run
    success,        \* what send_email returned
    existing,       \* save_sent_jobs: the set loaded before the write
    writes,         \* times this run opened sent_jobs.json for writing
    startFile,      \* sent_jobs.json as the run found it
    prev,           \* the previous run: how it ended and, when it reached the
                    \* end of the workflow, the listings it fetched and kept
    okReturned,     \* for each earlier run whose email was sent: the listings returned
    lastLen,        \* how many listings the latest fetch_jobs call returned
    jobs_sample,    \* enrich_with_llm: the listings handed to the LLM
    notified,       \* identifiers of the listings of the samples that were emailed
    writeOutcome,   \* save_sent_jobs: "none", "ok", "open_failed", "dump_failed"
    exitStatus,     \* exit status of the run's process, NotExited while it runs
    other           \* a second instance of the script started while the run
                    \* is under way: where it is and its local variables

vars == <<file, source, pc, runs, sent_job_ids, qi, fetched, all_jobs, lastFetch,
          enrichCalls, llm, emailCalls, success, existing, writes, startFile,
          prev, okReturned, lastLen, jobs_sample, notified, writeOutcome,
          exitStatus, other>>

Terminal == {"done", "aborted", "error"}

NoPrev == [outcome |-> "none", fetched |-> {}, out |-> {}]

\* The second instance: not started ("off": there is none), or where it is.
NoOther == [pc |-> "off", sent_job_ids |-> {}, all_jobs |-> <<>>,
            existing |-> {}, writeOutcome |-> "none"]

\* Nothing has run yet.
InitRun ==
    /\ pc = "init"
    /\ sent_job_ids = {}
    /\ qi = 1
    /\ fetched = <<>>
    /\ all_jobs = <<>>
    /\ lastFetch = "none"
    /\ enrichCalls = 0
    /\ llm = "none"
    /\ emailCalls = 0
    /\ success = FALSE
    /\ existing = {}
    /\ writes = 0
    /\ startFile = MissingFile
    /\ prev = NoPrev
    /\ okReturned = {}
    /\ lastLen = 0
    /\ jobs_sample = <<>>
    /\ notified = load_sent_jobs(file).value
    /\ writeOutcome = "none"
    /\ exitStatus = NotExited

\* The script is run again and again, one instance at a time.
Init ==
    /\ file \in InitFiles
    /\ source \in Sources
    /\ InitRun
    /\ runs = 0
    /\ other = NoOther

\* ------------------------------------------------------------- operations
\* How the run that has just ended went.
Outcome ==
    CASE pc = "init"                     -> "none"
      [] pc = "aborted"                  -> "no_new_jobs"
      [] pc = "done" /\ success          -> "saved"
      [] pc = "done" /\ ~success         -> "notify_failed"
      [] pc = "error" /\ emailCalls > 0  -> "save_error"
      [] pc = "error" /\ emailCalls = 0 /\ enrichCalls > 0 -> "enrich_error"
      [] pc = "error" /\ enrichCalls = 0 /\ lastFetch = "raised" -> "fetch_error"
      [] OTHER                           -> "load_error"

\* `job_id not in sent_job_ids` in fetch_all_jobs.
IsNewAlways(job_id, sent) == TRUE
IsNew(job_id, sent) == job_id \notin sent

\* The inner loop of fetch_all_jobs: the listings of one query that are kept.
KeptOnce(jobs, sent) ==
    LET F[i \in 0..Len(jobs)] ==
          IF i = 0 THEN <<>>
          ELSE IF /\ IsNew(JobId(jobs[i]), sent)
                  /\ \A j \in 1..(i - 1) : JobId(jobs[j]) # JobId(jobs[i])
               THEN Append(F[i - 1], jobs[i])
               ELSE F[i - 1]
    IN F[Len(jobs)]
Kept(jobs, sent) == SelectSeq(jobs, LAMBDA job : IsNew(JobId(job), sent))

\* What one call of the search API gives: requests.get or response.json()
\* raises; or the JSON body carries no "jobs_results" (an error response);
\* or it carries the listings.
Responses ==
    { [kind |-> "raised", jobs |-> <<>>],
      [kind |-> "error_response", jobs |-> <<>>] }
    \cup { [kind |-> "results", jobs |-> s] : s \in SeqsUpTo(Listings, MaxFetched) }

\* What the job source may answer to query q after n listings of this run.
SourceResponses(src, q, n) ==
    IF src = "small"
    THEN {resp \in Responses : n + Len(resp.jobs) <= MaxFetched}
    ELSE {[kind |-> "results", jobs |-> Batch(q, BatchSize(src))]}

\* fetch_jobs raises: requests.get(url, params=params) or response.json()
\* raises, and nothing in fetch_jobs or fetch_all_jobs catches it.
FetchRaisesNoResults(resp) == resp.kind # "results"
FetchRaises(resp) == resp.kind = "raised"

\* data.get("jobs_results", []) in fetch_jobs.
jobs_results(resp) == IF resp.kind = "results" THEN resp.jobs ELSE <<>>

\* `if len(jobs) == 0` in the main workflow.
NoNewJobsNever(jobs) == FALSE
NoNewJobs(jobs) == Len(jobs) = 0

\* enrich_with_llm raises: GEMINI_API_KEY is unset, or reading the prompt or
\* the chain's invoke raises.
EnrichRaisesOnlyOnKey(key_set, call_ok) == ~key_set
EnrichRaises(key_set, call_ok) == ~key_set \/ ~call_ok

\* jobs_sample = jobs[:50] in enrich_with_llm.
Sample(jobs) ==
    SubSeq(jobs, 1, IF Len(jobs) < SampleLimit THEN Len(jobs) ELSE SampleLimit)

\* The exit status of the process: exit() without argument and the end of
\* the script give 0, an exception nobody catches gives 1.
ExitCodeExitIsError(how) == IF how \in {"raised", "exit"} THEN 1 ELSE 0
ExitCode(how) == IF how = "raised" THEN 1 ELSE 0

\* `if success:` in the main workflow.
ShouldSaveAlways(sent) == TRUE
ShouldSave(sent) == sent

\* job.get("job_id", f"{job.get('title')}-{job.get('company_name')}") in
\* the main workflow: the key that is saved.
SavedJobId(job) ==
    IF job.job_id # Absent
    THEN job.job_id
    ELSE Str(job.title) \o "-" \o Str(job.company_name)

\* new_ids in the main workflow: the key computed again for each listing kept.
new_ids_no_fallback(jobs) == [i \in 1..Len(jobs) |-> jobs[i].job_id]
new_ids(jobs) == [i \in 1..Len(jobs) |-> SavedJobId(jobs[i])]

\* The script is started: the main workflow calls fetch_all_jobs, which
\* loads the seen set before the first query.
StartRun ==
    /\ pc \in Terminal \cup {"init"}
    /\ UNCHANGED other
    /\ runs < MaxRuns
    /\ runs' = runs + 1
    /\ prev' = IF Outcome \in {"notify_failed", "saved"}
               THEN [outcome |-> Outcome, fetched |-> Range(fetched),
                     out |-> Range(all_jobs)]
               ELSE [outcome |-> Outcome, fetched |-> {}, out |-> {}]
    /\ okReturned' = IF emailCalls > 0 /\ success
                     THEN okReturned \cup {Range(fetched)}
                     ELSE okReturned
    /\ startFile' = file
    /\ LET r == load_sent_jobs(file) IN
         /\ sent_job_ids' = r.value
         /\ pc' = IF r.raised THEN "error" ELSE "fetching"
         /\ exitStatus' = IF r.raised THEN ExitCode("raised") ELSE NotExited
    /\ lastLen' = 0
    /\ jobs_sample' = <<>>
    /\ writeOutcome' = "none"
    /\ UNCHANGED notified
    /\ qi' = 1
    /\ fetched' = <<>>
    /\ all_jobs' = <<>>
    /\ lastFetch' = "none"
    /\ enrichCalls' = 0
    /\ llm' = "none"
    /\ emailCalls' = 0
    /\ success' = FALSE
    /\ existing' = {}
    /\ writes' = 0
    /\ UNCHANGED <<file, source>>

\* One turn of `for q in queries`: fetch_jobs(q), then the filter loop.
FetchJobs ==
    /\ pc = "fetching"
    /\ qi <= NumQueries
    /\ UNCHANGED other
    /\ \E resp \in SourceResponses(source, qi, Len(fetched)) :
         /\ lastFetch' = resp.kind
         /\ IF FetchRaises(resp)
            THEN /\ pc' = "error"
                 /\ exitStatus' = ExitCode("raised")
                 /\ lastLen' = 0
                 /\ UNCHANGED <<qi, fetched, all_jobs>>
            ELSE /\ fetched' = fetched \o jobs_results(resp)
                 /\ lastLen' = Len(jobs_results(resp))
                 /\ UNCHANGED exitStatus
                 /\ all_jobs' = all_jobs \o Kept(jobs_results(resp), sent_job_ids)
                 /\ qi' = qi + 1
                 /\ pc' = IF qi = NumQueries THEN "filtering" ELSE "fetching"
    /\ UNCHANGED <<file, source, runs, sent_job_ids, enrichCalls, llm, emailCalls, success,
                   existing, writes, startFile, prev, okReturned, jobs_sample,
                   notified, writeOutcome>>

\* fetch_all_jobs has returned: `if len(jobs) == 0: exit()`.
CheckNew ==
    /\ pc = "filtering"
    /\ UNCHANGED other
    /\ pc' = IF NoNewJobs(all_jobs) THEN "aborted" ELSE "enriching"
    /\ exitStatus' = IF NoNewJobs(all_jobs) THEN ExitCode("exit") ELSE exitStatus
    /\ UNCHANGED <<lastLen, jobs_sample, notified, writeOutcome>>
    /\ UNCHANGED <<file, source, runs, sent_job_ids, qi, fetched, all_jobs, lastFetch,
                   enrichCalls, llm, emailCalls, success, existing, writes,
                   startFile, prev, okReturned>>

\* enriched_html = enrich_with_llm(jobs)
Enrich ==
    /\ pc = "enriching"
    /\ UNCHANGED other
    /\ enrichCalls' = enrichCalls + 1
    /\ \E key_set \in BOOLEAN, call_ok \in BOOLEAN :
         /\ llm' = IF ~key_set THEN "no_key"
                   ELSE IF ~call_ok THEN "call_raised" ELSE "ok"
         /\ jobs_sample' = IF key_set THEN Sample(all_jobs) ELSE <<>>
         /\ pc' = IF EnrichRaises(key_set, call_ok) THEN "error" ELSE "notifying"
         /\ exitStatus' = IF EnrichRaises(key_set, call_ok)
                          THEN ExitCode("raised") ELSE exitStatus
    /\ UNCHANGED <<lastLen, notified, writeOutcome>>
    /\ UNCHANGED <<file, source, runs, sent_job_ids, qi, fetched, all_jobs, lastFetch,
                   emailCalls, success, existing, writes, startFile, prev,
                   okReturned>>

\* success = send_email(enriched_html): True, or False when sending raised.
SendEmail ==
    /\ pc = "notifying"
    /\ UNCHANGED other
    /\ emailCalls' = emailCalls + 1
    /\ \E sent \in BOOLEAN :
         /\ success' = sent
         /\ pc' = IF ShouldSave(sent) THEN "persisting" ELSE "done"
         /\ exitStatus' = IF ShouldSave(sent) THEN exitStatus ELSE ExitCode("end")
         /\ notified' = IF sent
                        THEN notified \cup {JobId(jobs_sample[i]) :
                                               i \in 1..Len(jobs_sample)}
                        ELSE notified
    /\ UNCHANGED <<lastLen, jobs_sample, writeOutcome>>
    /\ UNCHANGED <<file, source, runs, sent_job_ids, qi, fetched, all_jobs, lastFetch,
                   enrichCalls, llm, existing, writes, startFile, prev,
                   okReturned>>

\* save_sent_jobs(new_ids), first line: existing = load_sent_jobs().
SaveLoad ==
    /\ pc = "persisting"
    /\ UNCHANGED other
    /\ LET r == load_sent_jobs(file) IN
         /\ existing' = r.value
         /\ pc' = IF r.raised THEN "error" ELSE "writing"
         /\ exitStatus' = IF r.raised THEN ExitCode("raised") ELSE exitStatus
    /\ UNCHANGED <<lastLen, jobs_sample, notified, writeOutcome>>
    /\ UNCHANGED <<file, source, runs, sent_job_ids, qi, fetched, all_jobs, lastFetch,
                   enrichCalls, llm, emailCalls, success, writes, startFile,
                   prev, okReturned>>

\* save_sent_jobs, the rest: open(SENT_JOBS_FILE, "w") and json.dump.
\*   "ok"          the file holds the JSON array of list(updated);
\*   "open_failed" open raised: the file is as it was;
\*   "dump_failed" open truncated the file and the write did not complete:
\*                 the file holds an empty or cut-off text.
SaveWrite ==
    /\ pc = "writing"
    /\ UNCHANGED other
    /\ \E how \in {"ok", "open_failed", "dump_failed"} :
         /\ writeOutcome' = how
         /\ exitStatus' = IF how = "ok" THEN ExitCode("end") ELSE ExitCode("raised")
         /\ CASE how = "ok" ->
                  /\ \E s \in ListOf(Updated(existing, new_ids(all_jobs))) :
                       file' = File("array", s)
                  /\ writes' = writes + 1
                  /\ pc' = "done"
             [] how = "open_failed" ->
                  /\ UNCHANGED <<file, writes>>
                  /\ pc' = "error"
             [] how = "dump_failed" ->
                  /\ file' = File("text", <<>>)
                  /\ writes' = writes + 1
                  /\ pc' = "error"
    /\ UNCHANGED <<lastLen, jobs_sample, notified>>
    /\ UNCHANGED <<source, runs, sent_job_ids, qi, fetched, all_jobs, lastFetch,
                   enrichCalls, llm, emailCalls, success, existing, startFile,
                   prev, okReturned>>

Next ==
    \/ StartRun
    \/ FetchJobs
    \/ CheckNew
    \/ Enrich
    \/ SendEmail
    \/ SaveLoad
    \/ SaveWrite

Spec == Init /\ [][Next]_vars

\* ------------------------------------------- two instances, one store file
\* What the second instance leaves alone: all of the first one's variables.
runVars == <<source, pc, runs, sent_job_ids, qi, fetched, all_jobs, lastFetch,
             enrichCalls, llm, emailCalls, success, existing, writes,
             startFile, prev, okReturned, lastLen, jobs_sample, notified,
             writeOutcome, exitStatus>>

\* The second instance is started: fetch_all_jobs loads the seen set.
OtherStart ==
    /\ other.pc = "idle"
    /\ LET r == load_sent_jobs(file) IN
         other' = [other EXCEPT !.pc = IF r.raised THEN "error" ELSE "fetching",
                                !.sent_job_ids = r.value]
    /\ UNCHANGED <<file, runVars>>

\* The second instance from its first query to the return of send_email,
\* none of which reads or writes the file: it exits on an empty list, or
\* ends without a save (an exception, or send_email returned False), or goes
\* on to save_sent_jobs.  sent_job_ids is gone with fetch_all_jobs' return.
OtherFetchToSend ==
    /\ other.pc = "fetching"
    /\ \E jobs \in SeqsUpTo(Listings, MaxFetched), sent \in BOOLEAN :
         LET kept == Kept(jobs, other.sent_job_ids) IN
         other' = [other EXCEPT
                     !.pc = IF NoNewJobs(kept) THEN "aborted"
                            ELSE IF ShouldSave(sent) THEN "persisting" ELSE "ended",
                     !.all_jobs = kept,
                     !.sent_job_ids = {}]
    /\ UNCHANGED <<file, runVars>>

\* The second instance in save_sent_jobs: existing = load_sent_jobs().
OtherSaveLoad ==
    /\ other.pc = "persisting"
    /\ LET r == load_sent_jobs(file) IN
         other' = [other EXCEPT !.pc = IF r.raised THEN "error" ELSE "writing",
                                !.existing = r.value]
    /\ UNCHANGED <<file, runVars>>

\* The second instance in save_sent_jobs: open(SENT_JOBS_FILE, "w") and
\* json.dump, as in SaveWrite.
OtherSaveWrite ==
    /\ other.pc = "writing"
    /\ \E how \in {"ok", "open_failed", "dump_failed"} :
         /\ other' = [other EXCEPT !.pc = IF how = "ok" THEN "done" ELSE "error",
                                   !.writeOutcome = how]
         /\ CASE how = "ok" ->
                  \E s \in ListOf(Updated(other.existing, new_ids(other.all_jobs))) :
                      file' = File("array", s)
             [] how = "open_failed" ->
                  UNCHANGED file
             [] how = "dump_failed" ->
                  file' = File("text", <<>>)
    /\ UNCHANGED runVars

\* The files the two instances may find.
RaceFiles == {MissingFile, File("array", <<"a">>)}

\* One run of the script and a second instance that may start at any time.
InitRace ==
    /\ file \in RaceFiles
    /\ source = "small"
    /\ InitRun
    /\ runs = MaxRuns - 1
    /\ other = [NoOther EXCEPT !.pc = "idle"]

NextRace ==
    \/ Next
    \/ OtherStart
    \/ OtherFetchToSend
    \/ OtherSaveLoad
    \/ OtherSaveWrite

SpecRace == InitRace /\ [][NextRace]_vars

\* ----------------------------------------------------------------- claims
\* The set load_sent_jobs() returns for a file (empty when it raises).
Seen(f) == load_sent_jobs(f).value

\* The identifiers of a sequence of listings.
IdsOf(jobs) == {JobId(jobs[i]) : i \in 1..Len(jobs)}

\* fetch_all_jobs has returned its list in this run.
AggregatorReturned ==
    \/ pc \in {"filtering", "aborted", "enriching", "notifying", "persisting",
               "writing", "done"}
    \/ pc = "error" /\ enrichCalls > 0

\* The load at the start of the run raised.
LoadRaised == pc = "error" /\ lastFetch = "none"

\* C1: a save that completes leaves the persisted set equal to S \cup B, S
\* being what load() returned before the call and B the batch saved: every
\* step of the write that ends the save ("writing" to "done") takes the set
\* read back from the file from Seen(file) to Seen(file) \cup B, and the file
\* loads without error.
C1_SaveIsUnion ==
    [][ (pc = "writing" /\ pc' = "done")
          => /\ ~load_sent_jobs(file').raised
             /\ Seen(file') = Seen(file) \cup IdsOf(all_jobs) ]_vars

\* C1 witness: a save completed on a store that held an identifier outside
\* the batch, with a batch that held an identifier outside the store.
C1_Witness ==
    /\ pc = "done"
    /\ writes = 1
    /\ Seen(startFile) \ IdsOf(all_jobs) # {}
    /\ IdsOf(all_jobs) \ Seen(startFile) # {}
    /\ Seen(file) = Seen(startFile) \cup IdsOf(all_jobs)

\* C2: in a run whose send_email returned False the file is never opened for
\* writing and stays what the run found, and the run ends without a save.
C2_FailedNotifyKeepsStore ==
    (emailCalls > 0 /\ ~success)
        => /\ file = startFile
           /\ writes = 0
           /\ pc = "done"

\* C2 witness: a run ended after send_email returned False, with listings
\* it could have saved.
C2_Witness ==
    /\ pc = "done"
    /\ emailCalls = 1
    /\ ~success
    /\ IdsOf(all_jobs) \ Seen(file) # {}

\* C3: when fetch_all_jobs returns an empty list the run exits at once:
\* enrich_with_llm and send_email are not called and the file is neither
\* written nor changed.
C3_EmptyShortCircuits ==
    (AggregatorReturned /\ all_jobs = <<>>)
        => /\ pc \in {"filtering", "aborted"}
           /\ enrichCalls = 0
           /\ emailCalls = 0
           /\ writes = 0
           /\ file = startFile

\* C3 witness: the run exited on the empty list although the job source
\* returned listings (all of them seen before).
C3_Witness ==
    /\ pc = "aborted"
    /\ fetched # <<>>
    /\ all_jobs = <<>>

\* C4: a listing some query returned is in fetch_all_jobs' output exactly
\* when its identifier is not in the set loaded at the start of the run.
C4_KeptIffUnseen ==
    \A i \in 1..Len(fetched) :
        (fetched[i] \in Range(all_jobs))
            <=> (JobId(fetched[i]) \notin Seen(startFile))

\* C4 witness: all queries are done; one listing was kept, and J3 was left
\* out because its job_id is in the loaded set.
C4_Witness ==
    /\ pc = "filtering"
    /\ J3 \in Range(fetched)
    /\ J3 \notin Range(all_jobs)
    /\ all_jobs # <<>>

\* The file is there and is not the JSON of an array of strings.
Malformed(f) == f.kind \in {"text", "number", "object", "nested"}

\* C5 (as claimed): a run that finds the file missing or malformed gets the
\* empty set from load_sent_jobs() and no exception.
C5_LoadNeverFails ==
    (pc # "init" /\ (startFile.kind = "missing" \/ Malformed(startFile)))
        => /\ ~LoadRaised
           /\ sent_job_ids = {}

C7_FailedNotifyRetried ==
    (prev.outcome = "notify_failed" /\ AggregatorReturned
        /\ Range(fetched) = prev.fetched)
        => prev.out \subseteq Range(all_jobs)

\* C7 witness: the run after a failed email fetched the same listings and
\* has them all in its list again.
C7_Witness ==
    /\ prev.outcome = "notify_failed"
    /\ pc = "filtering"
    /\ Range(fetched) = prev.fetched
    /\ prev.out # {}
    /\ prev.out \subseteq Range(all_jobs)

\* C8: when enrich_with_llm fails (no GEMINI_API_KEY, or the call raises)
\* the run ends with an error, send_email is not called, and the file is
\* neither written nor changed.
C8_EnrichFailureAborts ==
    (llm \in {"no_key", "call_raised"})
        => /\ pc = "error"
           /\ emailCalls = 0
           /\ writes = 0
           /\ file = startFile

\* C8 witness: the LLM call raised in a run that had listings to send.
C8_Witness ==
    /\ llm = "call_raised"
    /\ pc = "error"
    /\ all_jobs # <<>>
    /\ file = startFile

C10_SeenSetMonotonic ==
    (pc \in Terminal /\ ~load_sent_jobs(startFile).raised
        /\ ~load_sent_jobs(file).raised)
        => Seen(startFile) \subseteq Seen(file)

\* The listing carries what the identifier rule reads: a job_id, or a title
\* and a company_name.
HasKeyFields(job) ==
    job.job_id # Absent \/ (job.title # Absent /\ job.company_name # Absent)

\* The identifier rule as stated: the provider's id, else title-company_name.
ClaimedId(job) ==
    IF job.job_id # Absent
    THEN job.job_id
    ELSE job.title \o "-" \o job.company_name

\* C11: the identifier is the job_id when the listing has one and
\* title + "-" + company_name when it has none, and it is the same where the
\* listing is filtered and where it is saved: a fetched listing is kept
\* exactly when that identifier is not in the loaded set, and after a
\* completed save that identifier of every kept listing is in the file, which
\* holds nothing else new.
C11_IdentifierRule ==
    /\ \A i \in 1..Len(fetched) :
         HasKeyFields(fetched[i])
            => ((fetched[i] \in Range(all_jobs))
                   <=> (ClaimedId(fetched[i]) \notin Seen(startFile)))
    /\ (pc = "done" /\ writes = 1)
         => /\ \A i \in 1..Len(all_jobs) :
                 HasKeyFields(all_jobs[i]) => ClaimedId(all_jobs[i]) \in Seen(file)
            /\ (\A i \in 1..Len(all_jobs) : HasKeyFields(all_jobs[i]))
                 => Seen(file) = Seen(startFile)
                        \cup {ClaimedId(all_jobs[i]) : i \in 1..Len(all_jobs)}

\* C11 witness: a save completed for a listing with a job_id and a listing
\* without one; the file holds "a" and "Dev-Acme", the latter new.
C11_Witness ==
    /\ pc = "done"
    /\ writes = 1
    /\ J1 \in Range(all_jobs)
    /\ J2 \in Range(all_jobs)
    /\ "Dev-Acme" \notin Seen(startFile)
    /\ {"a", "Dev-Acme"} \subseteq Seen(file)

\* C12 (as claimed): after a run whose email was sent the file holds what it
\* held before the run and the identifiers of the listings kept, no more and
\* no less.
C12_SentImpliesStored ==
    (pc \in Terminal /\ emailCalls > 0 /\ success)
        => Seen(file) = Seen(startFile) \cup IdsOf(all_jobs)

\* C12 (amended): after a run whose email was sent and whose save completed
\* the file holds what it held before the run and the identifiers of the
\* listings kept, no more and no less; and when the store starts empty and
\* each of the NumQueries queries returns PairSize listings with distinct
\* unseen identifiers (7 times 2), fetch_all_jobs returns all NumQueries *
\* PairSize (14) of them and the file then holds exactly their identifiers.
C12_SavedRunStoresOutput ==
    /\ (pc = "done" /\ emailCalls > 0 /\ success)
         => Seen(file) = Seen(startFile) \cup IdsOf(all_jobs)
    /\ (source = "pairs" /\ Seen(startFile) = {} /\ AggregatorReturned)
         => /\ Len(all_jobs) = NumQueries * PairSize
            /\ Cardinality(IdsOf(all_jobs)) = NumQueries * PairSize
            /\ (pc = "done" /\ success)
                 => /\ Seen(file) = IdsOf(all_jobs)
                    /\ Cardinality(Seen(file)) = NumQueries * PairSize

\* C12 witness: from an empty store, every query returned its pair, the email
\* was sent and the save completed.
C12_Witness ==
    /\ source = "pairs"
    /\ Seen(startFile) = {}
    /\ pc = "done"
    /\ success
    /\ writes = 1
    /\ Len(all_jobs) = NumQueries * PairSize
    /\ Cardinality(Seen(file)) = NumQueries * PairSize

\* C13 (as claimed): a failed write of the store happens only after the email
\* was sent, and the run still ends as a normal run, not by an error.
C13_WriteFailureNonFatal ==
    (writeOutcome \in {"open_failed", "dump_failed"})
        => /\ emailCalls > 0
           /\ success
           /\ pc = "done"

\* C14 (as claimed): every identifier the file holds is the identifier of a
\* listing that was in the LLM's sample in a run whose email was sent (the
\* identifiers the first run finds in the file count as emailed before).
C14_StoredWereNotified == Seen(file) \subseteq notified

\* C15: a run that has ended has one exit status, 0 when it ended normally
\* (the end of the script, or exit() on an empty list) and not 0 when an
\* exception ended it (no GEMINI_API_KEY and a failed LLM call among them); a
\* run that has not ended has no exit status yet, and its loop over the
\* queries has a query left and an answer to get.
C15_ExitStatus ==
    /\ pc \in {"done", "aborted"} => exitStatus = 0
    /\ pc = "error" => exitStatus \notin {0, NotExited}
    /\ pc \notin Terminal => exitStatus = NotExited
    /\ (AggregatorReturned /\ all_jobs = <<>> /\ pc # "filtering") => exitStatus = 0
    /\ llm \in {"no_key", "call_raised"} => exitStatus \notin {0, NotExited}
    /\ pc = "fetching"
         => /\ qi <= NumQueries
            /\ SourceResponses(source, qi, Len(fetched)) # {}

\* C15 witness: a run ended by the missing key with status 1, after a run
\* that had ended on the empty list.
C15_Witness ==
    /\ pc = "error"
    /\ llm = "no_key"
    /\ exitStatus = 1
    /\ prev.outcome = "no_new_jobs"

\* The steps the workflow may take from one place to the next; a new run
\* starts from the end of the one before.
OrderedSteps ==
    { <<"init", "fetching">>, <<"init", "error">>,
      <<"done", "fetching">>, <<"done", "error">>,
      <<"aborted", "fetching">>, <<"aborted", "error">>,
      <<"error", "fetching">>, <<"error", "error">>,
      <<"fetching", "fetching">>, <<"fetching", "filtering">>,
      <<"fetching", "error">>,
      <<"filtering", "enriching">>, <<"filtering", "aborted">>,
      <<"enriching", "notifying">>, <<"enriching", "error">>,
      <<"notifying", "persisting">>, <<"notifying", "done">>,
      <<"persisting", "writing">>, <<"persisting", "error">>,
      <<"writing", "done">>, <<"writing", "error">> }

\* C16: a run goes through fetching, filtering, enriching, notifying,
\* persisting and done in this order, never back and never twice through a
\* step; the file changes only in the save and is opened for writing at most
\* once per run; the save is entered only after enrich_with_llm returned and
\* send_email returned True; the run ends early and normally only from the
\* check of an empty list.
C16_WorkflowOrder ==
    [][ /\ <<pc, pc'>> \in OrderedSteps
        /\ (file' # file) => (pc = "writing")
        /\ (writes' > writes) => (pc = "writing" /\ writes = 0 /\ writes' = 1)
        /\ enrichCalls' <= 1
        /\ emailCalls' <= 1
        /\ (pc' \in {"persisting", "writing"})
             => (llm' = "ok" /\ enrichCalls' = 1 /\ emailCalls' = 1 /\ success')
        /\ (pc' = "notifying") => (llm' = "ok" /\ emailCalls' = 0)
        /\ (pc' = "done") => (llm' = "ok" /\ emailCalls' = 1)
        /\ (pc' = "aborted")
             => (pc = "filtering" /\ all_jobs' = <<>> /\ enrichCalls' = 0
                   /\ emailCalls' = 0 /\ writes' = 0) ]_vars

\* C16 witness: a run went all the way: enriched, emailed, saved, done.
C16_Witness ==
    /\ pc = "done"
    /\ llm = "ok"
    /\ enrichCalls = 1
    /\ emailCalls = 1
    /\ success
    /\ writes = 1
    /\ writeOutcome = "ok"

\* C17: the list fetch_all_jobs builds is the listings the queries returned,
\* in the order of the queries and of each answer, without those whose
\* identifier is in the loaded set and with every repetition kept.
C17_OutputIsFilteredConcat ==
    all_jobs = SelectSeq(fetched, LAMBDA job : JobId(job) \notin Seen(startFile))

\* C17 witness: the latest query returned one listing, the same new listing
\* an earlier query had returned, and the list holds it twice.
C17_Witness ==
    /\ pc = "fetching"
    /\ Len(fetched) = 2
    /\ lastLen = 1
    /\ fetched[1] = fetched[2]
    /\ all_jobs = fetched

\* Both instances sent their email and completed save_sent_jobs.
BothSaved ==
    /\ pc = "done"
    /\ success
    /\ writeOutcome = "ok"
    /\ other.pc = "done"
    /\ other.writeOutcome = "ok"

\* The identifiers one of the two instances saved that the file lacks.
Lost == (Range(new_ids(all_jobs)) \cup Range(new_ids(other.all_jobs))) \ Seen(file)

\* C18: when two instances overlap on the store file and both have sent and
\* saved, the file holds what the later writer read plus that writer's batch,
\* and nothing else: an identifier the other one saved is missing from the
\* file exactly when the later writer read the file before it was written
\* there, the read (line 36) and the write (lines 37-39) being two steps.
C18_LostByStaleRead ==
    BothSaved =>
        \/ /\ Seen(file) = existing \cup Range(new_ids(all_jobs))
           /\ Lost = Range(new_ids(other.all_jobs)) \ (existing \cup Range(new_ids(all_jobs)))
        \/ /\ Seen(file) = other.existing \cup Range(new_ids(other.all_jobs))
           /\ Lost = Range(new_ids(all_jobs)) \ (other.existing \cup Range(new_ids(other.all_jobs)))

\* C18 witness: the lost update.  Both instances sent and saved, and an
\* identifier one of them saved is not in the file.
C18_Witness ==
    /\ BothSaved
    /\ Lost # {}
====
